---- MODULE Spec2Model ----
(***************************************************************************)
(* A model of utility_belt's INI configuration module (src/config.rs) and *)
(* of the uniq iterator adapter (src/iter/uniq.rs).                        *)
(*                                                                         *)
(* Strings are sequences of one-character strings, so that trimming,       *)
(* splitting and formatting are computed character by character as the     *)
(* code computes them.  A file is the flat sequence of its characters,     *)
(* line terminators included.  A Config's HashMap is a function whose      *)
(* domain is a finite set of <<group, variable>> keys.                     *)
(***************************************************************************)
EXTENDS Integers, Sequences, FiniteSets, TLC

VARIABLES
    disk,       \* the file at `path`: NoFile, or File(its characters)
    conf,       \* the Config the caller owns (Config.values)
    hist,       \* history: the assignments made to conf, oldest first
    out,        \* the last call of groups(): the Config it ran on, what it yielded
    wres,       \* what the last write_to_file did: "none", "ok", "err" or "panic"
    pc,         \* read_from_file: "idle", "loop" (inside the loop), "done"
    opened,     \* history: "no", "ok" or "failed" (outcome of File::open)
    content,    \* the characters of the file the reader was opened on
    rpos,       \* reader: number of characters consumed so far
    lstart,     \* history: rpos at the last successful read_line
    delivered,  \* history: the input lines completed by a successful read_line
    fails,      \* history: number of failed read_line calls
    line,       \* local `line`, the line buffer
    cnt,        \* local `cnt`
    errors,     \* local `errors`
    map,        \* local `map`
    group,      \* local `group`
    result,     \* what read_from_file returned
    cell,       \* static CONFIG: the OnceCell holding the global Config
    glog,       \* history: the calls of set_global and global, with results
    ret,        \* the last call of get, get_default or an index on conf
    usrc,       \* history: the elements of the source given to uniq()
    uit,        \* the UniqIterator: the rest of its source, and seen
    uout,       \* history: what the UniqIterator has yielded, oldest first
    ulast       \* what the last call of next() returned, if there was one

vars == <<disk, conf, hist, out, wres, pc, opened, content, rpos, lstart, delivered,
          fails, line, cnt, errors, map, group, result, cell, glog,
          ret, usrc, uit, uout, ulast>>

storeVars == <<conf, hist, out, wres>>
globalVars == <<cell, glog>>
lookupVars == <<ret>>
uniqVars == <<usrc, uit, uout, ulast>>
parseVars == <<pc, opened, content, rpos, lstart, delivered, fails, line, cnt,
               errors, map, group, result>>

----------------------------------------------------------------------------
(* Bounds of the model.                                                    *)

\* most lines in an enumerated input file of the parser
MaxLines == 3
\* most lines in an enumerated file of headers and assignments
MaxGroupLines == 5
\* most characters in an enumerated single-line file
MaxLineLen == 4
\* most failed read_line calls in one parse
MaxFail == 1
\* most set / set_default / merge_with calls in one behaviour
MaxOps == 3
\* most keys in an enumerated Config that is written and read back
MaxKeys == 2
\* most calls of set_global and global in one behaviour
MaxCalls == 4
\* most elements in a source given to uniq()
MaxSrcLen == 4

----------------------------------------------------------------------------
(* Strings.                                                                *)

\* the state of a path: no file there, a file with its characters, or a
\* directory
NoFile == [exists |-> FALSE, dir |-> FALSE, data |-> <<>>]

File(c) == [exists |-> TRUE, dir |-> FALSE, data |-> c]

\* a directory: File::open succeeds on it, File::create fails, and every read
\* from it fails
Dir == [exists |-> TRUE, dir |-> TRUE, data |-> <<>>]

\* char::is_whitespace, on the characters the model uses
WhiteSpace == {" ", "\n"}

IsEmpty(s) == Len(s) = 0

\* a test for the character anywhere in the string
Contains(s, c) == \E i \in 1..Len(s) : s[i] = c

\* str::starts_with(char)
StartsWith(s, c) == Len(s) > 0 /\ s[1] = c

EndsWith(s, c) == Len(s) > 0 /\ s[Len(s)] = c

RECURSIVE TrimStart(_)
TrimStart(s) ==
    IF Len(s) > 0 /\ s[1] \in WhiteSpace THEN TrimStart(Tail(s)) ELSE s

RECURSIVE TrimEnd(_)
TrimEnd(s) ==
    IF Len(s) > 0 /\ s[Len(s)] \in WhiteSpace
    THEN TrimEnd(SubSeq(s, 1, Len(s) - 1))
    ELSE s

Trim(s) == TrimEnd(TrimStart(s))

\* the least index of c in s, 0 if there is none (str::find)
RECURSIVE FindFrom(_, _, _)
FindFrom(s, c, i) ==
    IF i > Len(s) THEN 0
    ELSE IF s[i] = c THEN i
    ELSE FindFrom(s, c, i + 1)

\* the greatest index of c in s, 0 if there is none
RECURSIVE RFindFrom(_, _, _)
RFindFrom(s, c, i) ==
    IF i < 1 THEN 0
    ELSE IF s[i] = c THEN i
    ELSE RFindFrom(s, c, i - 1)

\* a split at the last c instead
SplitOnceLast(s, c) ==
    LET i == RFindFrom(s, c, Len(s))
    IN  IF i = 0 THEN [found |-> FALSE]
        ELSE [found |-> TRUE,
              var |-> SubSeq(s, 1, i - 1),
              val |-> SubSeq(s, i + 1, Len(s))]

\* str::split_once: split at the first c
SplitOnce(s, c) ==
    LET i == FindFrom(s, c, 1)
    IN  IF i = 0 THEN [found |-> FALSE]
        ELSE [found |-> TRUE,
              var |-> SubSeq(s, 1, i - 1),
              val |-> SubSeq(s, i + 1, Len(s))]

----------------------------------------------------------------------------
(* Keys, maps and errors.                                                  *)

DEFAULT == <<"D", "E", "F", "A", "U", "L", "T">>

\* the `path` argument of read_from_file / write_to_file
Path == "conf.ini"

\* PathBuf::default()
DefaultPath == ""

EmptyMap == [k \in {} |-> <<>>]

\* an insert that keeps the value a key already has
InsertKeep(m, k, v) ==
    IF k \in DOMAIN m THEN m
    ELSE [x \in DOMAIN m \cup {k} |-> IF x = k THEN v ELSE m[x]]

\* HashMap::insert
Insert(m, k, v) ==
    [x \in DOMAIN m \cup {k} |-> IF x = k THEN v ELSE m[x]]

\* impl From<io::Error> for FileError
IOError(kind) == [kind |-> "IO", file |-> DefaultPath, err |-> kind]

\* FileError::Parse { file: path.to_owned(), msg, data: line.to_owned(), line: cnt }
ParseError(msg, data, n) ==
    [kind |-> "Parse", file |-> Path, msg |-> msg, data |-> data, line |-> n]

MsgBracket == "Missing closing bracket for group name"
MsgVariable == "Assignment requires a variable name"
MsgAssignment == "Expected a variable assignment"

----------------------------------------------------------------------------
(* The Config: set, set_default, merge_with, get, groups.                  *)

\* Option::None, and Some(v)
None == [some |-> FALSE]
Some(v) == [some |-> TRUE, val |-> v]

\* Config::get: self.values.get(&(group, variable))
Get(m, g, v) == IF <<g, v>> \in DOMAIN m THEN Some(m[<<g, v>>]) ELSE None

\* a get_default that looks the variable up in a group named "default"
GetDefaultLower(m, v) == Get(m, <<"d", "e", "f", "a", "u", "l", "t">>, v)

\* Config::get_default: self.values.get(&("DEFAULT", variable))
GetDefault(m, v) ==
    IF <<DEFAULT, v>> \in DOMAIN m THEN Some(m[<<DEFAULT, v>>]) ELSE None

\* a set that drops every other key
ConfigSetOnly(m, g, v, x) == Insert(EmptyMap, <<g, v>>, x)

\* Config::set: self.values.insert((group, var), val); self
ConfigSet(m, g, v, x) == Insert(m, <<g, v>>, x)

\* Config::set_default: self.set("DEFAULT", var, val)
ConfigSetDefault(m, v, x) == ConfigSet(m, DEFAULT, v, x)

\* the orders in which a HashMap may yield its keys: every enumeration of them
KeysOrders(m) ==
    LET n == Cardinality(DOMAIN m)
    IN  {f \in [1..n -> DOMAIN m] : \A i, j \in 1..n : f[i] = f[j] => i = j}

\* a merge in which the values of self win
RECURSIVE MergeSelfWins(_, _, _)
MergeSelfWins(self, other, ord) ==
    IF Len(ord) = 0 THEN self
    ELSE MergeSelfWins(InsertKeep(self, Head(ord), other[Head(ord)]),
                       other, Tail(ord))

\* Config::merge_with: for (k, v) in other.values { self.values.insert(k, v); }
\* with other.values yielding its entries in the order ord
RECURSIVE MergeWithOrder(_, _, _)
MergeWithOrder(self, other, ord) ==
    IF Len(ord) = 0 THEN self
    ELSE MergeWithOrder(Insert(self, Head(ord), other[Head(ord)]),
                        other, Tail(ord))

\* iter::uniq: Uniq::uniq
UniqIter(src) == [source |-> src, seen |-> {}]

\* Iterator::find(|i| !seen.contains(i)) on the rest of the source: the rest
\* from the first element not seen, empty if there is none
RECURSIVE SkipSeen(_, _)
SkipSeen(src, seen) ==
    IF Len(src) = 0 THEN src
    ELSE IF Head(src) \in seen THEN SkipSeen(Tail(src), seen)
    ELSE src

\* a next() that does not record what it yields
UniqNextForget(it) ==
    LET r == SkipSeen(it.source, it.seen)
    IN  IF Len(r) = 0
        THEN [item |-> None, it |-> [source |-> r, seen |-> it.seen]]
        ELSE [item |-> Some(Head(r)), it |-> [source |-> Tail(r), seen |-> it.seen]]

\* UniqIterator::next: the item yielded and the iterator afterwards
UniqNext(it) ==
    LET r == SkipSeen(it.source, it.seen)
    IN  IF Len(r) = 0
        THEN [item |-> None, it |-> [source |-> r, seen |-> it.seen]]
        ELSE [item |-> Some(Head(r)),
              it |-> [source |-> Tail(r), seen |-> it.seen \cup {Head(r)}]]

\* everything the iterator yields until its first None
RECURSIVE UniqCollect(_)
UniqCollect(it) ==
    LET n == UniqNext(it)
    IN  IF n.item.some THEN <<n.item.val>> \o UniqCollect(n.it) ELSE <<>>

\* Config::groups: self.values.keys().uniq().map(|k| &k.0), with keys()
\* yielding in the order ord
Groups(m, ord) ==
    LET ks == UniqCollect(UniqIter(ord))
    IN  [i \in 1..Len(ks) |-> ks[i][1]]

\* the strings the model's callers pass to set and set_default
StoreGroups == {DEFAULT, <<"g">>}
StoreVars == {<<"a">>, <<"b">>}
StoreVals == {<<"1">>, <<"2">>}

\* every Config with keys among K and values among V
ConfigsOver(K, V) == UNION {[D -> V] : D \in SUBSET K}

\* the Configs the model's callers merge in
MergeOthers == ConfigsOver({<<DEFAULT, <<"a">>>>, <<<<"g">>, <<"b">>>>}, StoreVals)

\* no groups() iterator is alive: it borrows the Config, and set, set_default
\* and merge_with consume the Config
NoYield == [store |-> EmptyMap, yielded |-> <<>>]

\* no result of a lookup is alive: get, get_default and the indexes return a
\* reference into the Config, and set, set_default and merge_with consume it
NoRet == [fn |-> "none"]

Set(g, v, x) ==
    /\ pc = "idle"
    /\ Len(hist) < MaxOps
    /\ conf' = ConfigSet(conf, g, v, x)
    /\ hist' = Append(hist, [op |-> "set", key |-> <<g, v>>, val |-> x])
    /\ out' = NoYield
    /\ ret' = NoRet
    /\ UNCHANGED <<uniqVars, globalVars, disk, wres, parseVars>>

SetDefault(v, x) ==
    /\ pc = "idle"
    /\ Len(hist) < MaxOps
    /\ conf' = ConfigSetDefault(conf, v, x)
    /\ hist' = Append(hist, [op |-> "set", key |-> <<DEFAULT, v>>, val |-> x])
    /\ out' = NoYield
    /\ ret' = NoRet
    /\ UNCHANGED <<uniqVars, globalVars, disk, wres, parseVars>>

MergeWith(other) ==
    /\ pc = "idle"
    /\ Len(hist) < MaxOps
    /\ \E ord \in KeysOrders(other) : conf' = MergeWithOrder(conf, other, ord)
    /\ hist' = Append(hist, [op |-> "merge", other |-> other])
    /\ out' = NoYield
    /\ ret' = NoRet
    /\ UNCHANGED <<uniqVars, globalVars, disk, wres, parseVars>>

CallGroups ==
    /\ pc = "idle"
    /\ \E ord \in KeysOrders(conf) :
          out' = [store |-> conf, yielded |-> Groups(conf, ord)]
    /\ UNCHANGED <<uniqVars, globalVars, lookupVars, disk, conf, hist, wres, parseVars>>

\* a variables_in_group that does not filter by group
RECURSIVE VariablesInAnyGroup(_, _)
VariablesInAnyGroup(g, ord) ==
    IF Len(ord) = 0 THEN <<>>
    ELSE <<Head(ord)[2]>> \o VariablesInAnyGroup(g, Tail(ord))

\* Config::variables_in_group: the keys of the group, in keys() order
RECURSIVE VariablesInGroup(_, _)
VariablesInGroup(g, ord) ==
    IF Len(ord) = 0 THEN <<>>
    ELSE IF Head(ord)[1] = g
         THEN <<Head(ord)[2]>> \o VariablesInGroup(g, Tail(ord))
         ELSE VariablesInGroup(g, Tail(ord))

\* an index that yields the empty string for a key that is absent
IndexLenient(m, g, v) ==
    [tag |-> "Ref", val |-> IF <<g, v>> \in DOMAIN m THEN m[<<g, v>>] ELSE <<>>]

\* impl Index<(&str, &str)> for Config: &self.values[&key]; HashMap's index
\* panics when the key is absent
Index(m, g, v) ==
    IF <<g, v>> \in DOMAIN m THEN [tag |-> "Ref", val |-> m[<<g, v>>]]
    ELSE [tag |-> "Panic"]

\* impl Index<&str> for Config: self.index(("DEFAULT", variable))
IndexDefault(m, v) == Index(m, DEFAULT, v)

\* a header written without its closing bracket
FormatHeaderOpen(g) == <<"[">> \o g \o <<"\n">>

\* writeln!(file, "[{}]", group)
FormatHeader(g) == <<"[">> \o g \o <<"]", "\n">>

\* writeln!(file, "{} = {}", var, self[(group, var)])
FormatAssign(var, val) == var \o <<" ", "=", " ">> \o val \o <<"\n">>

\* the inner loop of write_to_file over the variables vs of group g: the text
\* written, and whether the index panicked (the loop then stops)
RECURSIVE WriteVariables(_, _, _)
WriteVariables(m, g, vs) ==
    IF Len(vs) = 0 THEN [text |-> <<>>, panic |-> FALSE]
    ELSE IF Index(m, g, Head(vs)).tag = "Panic"
         THEN [text |-> <<>>, panic |-> TRUE]
         ELSE LET rest == WriteVariables(m, g, Tail(vs))
              IN  [text |-> FormatAssign(Head(vs), Index(m, g, Head(vs)).val)
                               \o rest.text,
                   panic |-> rest.panic]

\* the outer loop of write_to_file over the groups gs
RECURSIVE WriteGroups(_, _, _)
WriteGroups(m, gs, ord) ==
    IF Len(gs) = 0 THEN [text |-> <<>>, panic |-> FALSE]
    ELSE LET w == WriteVariables(m, Head(gs), VariablesInGroup(Head(gs), ord))
         IN  IF w.panic
             THEN [text |-> FormatHeader(Head(gs)) \o w.text, panic |-> TRUE]
             ELSE LET rest == WriteGroups(m, Tail(gs), ord)
                  IN  [text |-> FormatHeader(Head(gs)) \o w.text \o rest.text,
                       panic |-> rest.panic]

\* everything write_to_file writes, the HashMap yielding its keys in order ord
WriteText(m, ord) == WriteGroups(m, Groups(m, ord), ord)

\* write_to_file returns Ok(()): the file is replaced by the whole text.  If
\* an index panicked, the file holds what was written before it.
WriteToFile ==
    /\ pc = "idle"
    /\ ~disk.dir
    /\ \E ord \in KeysOrders(conf) :
       \E w \in {WriteText(conf, ord)} :
          /\ disk' = File(w.text)
          /\ wres' = IF w.panic THEN "panic" ELSE "ok"
    /\ UNCHANGED <<uniqVars, globalVars, lookupVars, conf, hist, out, parseVars>>

\* write_to_file returns Err: File::create failed and the path is as it was,
\* or a writeln! failed and the file holds what was written before it
WriteFail ==
    /\ pc = "idle"
    /\ \/ disk' = disk
       \/ /\ ~disk.dir
          /\ \E ord \in KeysOrders(conf) :
             \E n \in 0..(Len(WriteText(conf, ord).text) - 1) :
                disk' = File(SubSeq(WriteText(conf, ord).text, 1, n))
    /\ wres' = "err"
    /\ UNCHANGED <<uniqVars, globalVars, lookupVars, conf, hist, out, parseVars>>

NextStore ==
    \/ \E g \in StoreGroups, v \in StoreVars, x \in StoreVals : Set(g, v, x)
    \/ \E v \in StoreVars, x \in StoreVals : SetDefault(v, x)
    \/ \E other \in MergeOthers : MergeWith(other)
    \/ CallGroups

----------------------------------------------------------------------------
(* read_from_file.                                                         *)

\* the characters one read_line call takes from the reader at position p:
\* up to and including the next "\n", or to the end of the file
NextChunk(c, p) ==
    LET i == FindFrom(c, "\n", p + 1)
    IN  IF i = 0 THEN SubSeq(c, p + 1, Len(c)) ELSE SubSeq(c, p + 1, i)

\* the part of a chunk that a failing read_line may already have taken
ChunkText(ch) == IF EndsWith(ch, "\n") THEN SubSeq(ch, 1, Len(ch) - 1) ELSE ch

\* a counter that skips blank lines
NextCntSkipBlank(n, t) == IF IsEmpty(Trim(t)) THEN n ELSE n + 1

\* cnt += 1
NextCnt(n, t) == n + 1

\* a buffer that is not cleared
LineKeep(t) == t

\* line.clear()
LineClear(t) == <<>>

\* the body of the loop after a successful read: the trimmed line t, numbered n
ProcessLine(t, n, errs, m, g) ==
    IF IsEmpty(t) THEN
        [line |-> t, errors |-> errs, map |-> m, group |-> g]
    ELSE IF StartsWith(t, ";") THEN
        [line |-> LineClear(t), errors |-> errs, map |-> m, group |-> g]
    ELSE IF StartsWith(t, "[") THEN
        IF EndsWith(t, "]") THEN
            [line |-> LineClear(t), errors |-> errs, map |-> m,
             group |-> Trim(SubSeq(t, 2, Len(t) - 1))]
        ELSE
            [line |-> LineClear(t),
             errors |-> Append(errs, ParseError(MsgBracket, t, n)),
             map |-> m, group |-> g]
    ELSE IF SplitOnce(t, "=").found THEN
        LET var == TrimEnd(SplitOnce(t, "=").var)
            val == SplitOnce(t, "=").val
        IN  IF IsEmpty(var) THEN
                [line |-> LineClear(t),
                 errors |-> Append(errs, ParseError(MsgVariable, t, n)),
                 map |-> m, group |-> g]
            ELSE
                [line |-> LineClear(t), errors |-> errs,
                 map |-> Insert(m, <<g, var>>, TrimStart(val)), group |-> g]
    ELSE
        [line |-> LineClear(t),
         errors |-> Append(errs, ParseError(MsgAssignment, t, n)),
         map |-> m, group |-> g]

\* a result that is the map whatever the errors
ParseResultAlwaysOk(errs, m) == [tag |-> "Ok", values |-> m]

\* if errors.is_empty() { Ok(Self { values: map }) } else { Err(errors) }
ParseResult(errs, m) ==
    IF IsEmpty(errs) THEN [tag |-> "Ok", values |-> m]
    ELSE [tag |-> "Err", errors |-> errs]

\* an open failure that reports nothing
OpenFailResultEmpty(kind) == [tag |-> "Err", errors |-> <<>>]

\* Err(e) => return Err(vec![e.into()])
OpenFailResult(kind) == [tag |-> "Err", errors |-> <<IOError(kind)>>]

NoResult == [tag |-> "None"]

\* File::open(path) fails: the function returns at once
OpenFail ==
    /\ pc = "idle"
    /\ \E kind \in {"NotFound", "PermissionDenied"} :
          /\ (kind = "NotFound") <=> ~disk.exists
          /\ result' = OpenFailResult(kind)
    /\ opened' = "failed"
    /\ pc' = "done"
    /\ UNCHANGED <<uniqVars, globalVars, lookupVars, disk, storeVars, content, rpos, lstart, delivered, fails,
                   line, cnt, errors, map, group>>

\* an open that starts in a group with the empty name
OpenEmptyGroup ==
    /\ pc = "idle"
    /\ disk.exists
    /\ opened' = "ok"
    /\ content' = disk.data
    /\ rpos' = 0
    /\ lstart' = 0
    /\ line' = <<>>
    /\ cnt' = 0
    /\ errors' = <<>>
    /\ map' = EmptyMap
    /\ group' = <<>>
    /\ pc' = "loop"
    /\ UNCHANGED <<uniqVars, globalVars, lookupVars, disk, storeVars, delivered, fails, result>>

\* File::open(path) succeeds: the locals are initialised
Open ==
    /\ pc = "idle"
    /\ disk.exists
    /\ opened' = "ok"
    /\ content' = disk.data
    /\ rpos' = 0
    /\ lstart' = 0
    /\ line' = <<>>
    /\ cnt' = 0
    /\ errors' = <<>>
    /\ map' = EmptyMap
    /\ group' = DEFAULT
    /\ pc' = "loop"
    /\ UNCHANGED <<uniqVars, globalVars, lookupVars, disk, storeVars, delivered, fails, result>>

\* a failed read that is counted as a line
ReadFailCounted ==
    /\ pc = "loop"
    /\ fails < MaxFail
    /\ \E k \in 0..Len(ChunkText(NextChunk(content, rpos))) :
          /\ line' = line \o SubSeq(content, rpos + 1, rpos + k)
          /\ rpos' = rpos + k
    /\ errors' = Append(errors, IOError("Other"))
    /\ fails' = fails + 1
    /\ cnt' = cnt + 1
    /\ UNCHANGED <<uniqVars, globalVars, lookupVars, disk, storeVars, pc, opened, content, lstart,
                   delivered, map, group, result>>

\* read_line returns Err(e): the error is pushed and the loop continues.
\* The read may have taken some characters of the line before it failed;
\* they are then in the buffer.
ReadFail ==
    /\ pc = "loop"
    /\ fails < MaxFail
    /\ \E k \in 0..Len(ChunkText(NextChunk(content, rpos))) :
          /\ line' = line \o SubSeq(content, rpos + 1, rpos + k)
          /\ rpos' = rpos + k
    /\ errors' = Append(errors, IOError("Other"))
    /\ fails' = fails + 1
    /\ UNCHANGED <<uniqVars, globalVars, lookupVars, disk, storeVars, pc, opened, content, lstart, delivered,
                   cnt, map, group, result>>

\* read_line returns Err(e) because the line is not valid UTF-8: async_std's
\* read_line has taken the whole line from the reader and has moved the
\* buffer's bytes out without moving them back, so the buffer is empty.  The
\* error is pushed and the loop continues.
ReadInvalid ==
    /\ pc = "loop"
    /\ fails < MaxFail
    /\ Len(NextChunk(content, rpos)) > 0
    /\ rpos' = rpos + Len(NextChunk(content, rpos))
    /\ lstart' = rpos + Len(NextChunk(content, rpos))
    /\ line' = <<>>
    /\ errors' = Append(errors, IOError("InvalidData"))
    /\ fails' = fails + 1
    /\ UNCHANGED <<uniqVars, globalVars, lookupVars, disk, storeVars, pc, opened, content, delivered, cnt, map,
                   group, result>>

\* read_line returns Ok(len) with len > 0: one pass through the loop body
ReadLine ==
    /\ pc = "loop"
    /\ Len(NextChunk(content, rpos)) > 0
    /\ \E chunk \in {NextChunk(content, rpos)} :
       \E n \in {NextCnt(cnt, line \o chunk)} :
       \E r \in {ProcessLine(Trim(line \o chunk), n, errors, map, group)} :
           /\ rpos' = rpos + Len(chunk)
           /\ lstart' = rpos + Len(chunk)
           /\ delivered' = Append(delivered,
                                  SubSeq(content, lstart + 1, rpos + Len(chunk)))
           /\ cnt' = n
           /\ line' = r.line
           /\ errors' = r.errors
           /\ map' = r.map
           /\ group' = r.group
    /\ UNCHANGED <<uniqVars, globalVars, lookupVars, disk, storeVars, pc, opened, content, fails,
                   result>>

\* a loop that also stops at the first recorded error
ReadEofFailFast ==
    /\ pc = "loop"
    /\ ~disk.dir
    /\ Len(NextChunk(content, rpos)) = 0 \/ Len(errors) > 0
    /\ result' = ParseResult(errors, map)
    /\ pc' = "done"
    /\ UNCHANGED <<uniqVars, globalVars, lookupVars, disk, storeVars, opened, content, rpos, lstart, delivered,
                   fails, line, cnt, errors, map, group>>

\* read_line returns Ok(0): break, and the result is built.  A read from a
\* directory never returns Ok.
ReadEof ==
    /\ pc = "loop"
    /\ ~disk.dir
    /\ Len(NextChunk(content, rpos)) = 0
    /\ result' = ParseResult(errors, map)
    /\ pc' = "done"
    /\ UNCHANGED <<uniqVars, globalVars, lookupVars, disk, storeVars, opened, content, rpos, lstart, delivered,
                   fails, line, cnt, errors, map, group>>

NextParse == OpenFail \/ Open \/ ReadFail \/ ReadInvalid \/ ReadLine \/ ReadEof

----------------------------------------------------------------------------
(* Input files of the parser.                                              *)

BoundedSeq(S, n) == UNION {[1..k -> S] : k \in 0..n}

\* the file whose lines are ls, each ended by "\n"
RECURSIVE Flatten(_)
Flatten(ls) ==
    IF Len(ls) = 0 THEN <<>> ELSE Head(ls) \o <<"\n">> \o Flatten(Tail(ls))

\* the same file without its last line terminator
Unterminated(c) == IF Len(c) = 0 THEN c ELSE SubSeq(c, 1, Len(c) - 1)

\* one line of each class, with surrounding whitespace and extra '='
LineSet ==
    { <<" ">>,
      <<";", "a", "=", "b">>,
      <<" ", "[", " ", "g", " ", "]">>,
      <<"[", "g", "=">>,
      <<"a", " ", "=", "1", "=", "2", " ">>,
      <<" ", "=", "v">>,
      <<"#", " ", "c">> }

\* tests/invalid.ini as tests::collect_all_parse_errors reads it: the four bad
\* lines at 3, 5, 7 and 9, comment and blank lines between them
InvalidIni ==
    Flatten(<< <<";", " ", "x">>,
               <<>>,
               <<"s", "o", "m", "e", " ", "v", "a", "r">>,
               <<>>,
               <<"=", " ", "s", "o", "m", "e">>,
               <<" ">>,
               <<"[", "B", "a", "d", " ", "G">>,
               <<";">>,
               <<"#", " ", "B", "a", "d">> >>)

ParseInputs ==
    LET files == {Flatten(ls) : ls \in BoundedSeq(LineSet, MaxLines)}
    IN  files \cup {Unterminated(c) : c \in files} \cup {InvalidIni}

\* nothing has been called yet
InitIdle ==
    /\ hist = <<>>
    /\ out = NoYield
    /\ wres = "none"
    /\ pc = "idle"
    /\ opened = "no"
    /\ content = <<>>
    /\ rpos = 0
    /\ lstart = 0
    /\ delivered = <<>>
    /\ fails = 0
    /\ line = <<>>
    /\ cnt = 0
    /\ errors = <<>>
    /\ map = EmptyMap
    /\ group = DEFAULT
    /\ result = NoResult
    /\ cell = None
    /\ glog = <<>>
    /\ ret = NoRet

\* and no uniq iterator has been made
InitCommon ==
    /\ InitIdle
    /\ usrc = <<>>
    /\ uit = UniqIter(<<>>)
    /\ uout = <<>>
    /\ ulast = <<>>

\* read_from_file is called on an arbitrary file, or on a path with no file
InitParse ==
    /\ disk \in {File(c) : c \in ParseInputs} \cup {NoFile}
    /\ conf = EmptyMap
    /\ InitCommon

SpecParse == InitParse /\ [][NextParse]_vars

----------------------------------------------------------------------------
(* The classes of an input line, as the file format defines them.          *)

HasEq(t) == \E i \in 1..Len(t) : t[i] = "="

FirstEq(t) ==
    CHOOSE i \in 1..Len(t) : t[i] = "=" /\ \A j \in 1..(i - 1) : t[j] # "="

IsBlankLine(l) == \A i \in 1..Len(l) : l[i] \in WhiteSpace

IsCommentLine(l) == LET t == Trim(l) IN Len(t) > 0 /\ t[1] = ";"

IsHeaderLine(l) ==
    LET t == Trim(l) IN Len(t) > 0 /\ t[1] = "[" /\ t[Len(t)] = "]"

IsMalformedHeader(l) ==
    LET t == Trim(l) IN Len(t) > 0 /\ t[1] = "[" /\ t[Len(t)] # "]"

IsAssignLine(l) ==
    LET t == Trim(l) IN Len(t) > 0 /\ t[1] \notin {";", "["} /\ HasEq(t)

IsEmptyKeyAssign(l) ==
    /\ IsAssignLine(l)
    /\ \A j \in 1..(FirstEq(Trim(l)) - 1) : Trim(l)[j] \in WhiteSpace

IsInvalidLine(l) ==
    LET t == Trim(l) IN Len(t) > 0 /\ t[1] \notin {";", "["} /\ ~HasEq(t)

IsBadLine(l) == IsMalformedHeader(l) \/ IsEmptyKeyAssign(l) \/ IsInvalidLine(l)

BadLineMsg(l) ==
    IF IsMalformedHeader(l) THEN MsgBracket
    ELSE IF IsEmptyKeyAssign(l) THEN MsgVariable
    ELSE MsgAssignment

\* the name of the default group, spelled out
DefaultName == <<"D", "E", "F", "A", "U", "L", "T">>

IsParseErr(e) == e.kind = "Parse"
IsIOErr(e) == e.kind = "IO"

\* the parse errors of an error list, in order
ParseErrs(errs) == SelectSeq(errs, IsParseErr)

----------------------------------------------------------------------------
(* Claims about read_from_file, checked under SpecParse.                   *)

\* C1: read_from_file is all-or-nothing.  When it has returned, the result is
\* a Store exactly when the file was opened, no read failed and no delivered
\* line is a bad line; the Store is then the whole working map.  Otherwise the
\* result is the error list alone, and that list is not empty.
C1_AllOrNothing ==
    pc = "done" =>
        /\ result.tag \in {"Ok", "Err"}
        /\ result.tag = "Ok" <=>
              /\ opened = "ok"
              /\ fails = 0
              /\ \A i \in 1..Len(delivered) : ~IsBadLine(delivered[i])
        /\ result.tag = "Ok" => result.values = map
        /\ result.tag = "Err" => Len(result.errors) > 0
        /\ (result.tag = "Err" /\ opened = "ok") => result.errors = errors

\* a parse returned errors although the input also holds a valid assignment
C1_Witness ==
    /\ pc = "done"
    /\ result.tag = "Err"
    /\ fails = 0
    /\ DOMAIN map # {}
    /\ \E i \in 1..Len(delivered) : IsBadLine(delivered[i])

\* the bad lines of ds, in input order, as <<line number, message>>
RECURSIVE ExpectedErrors(_, _)
ExpectedErrors(ds, i) ==
    IF i > Len(ds) THEN <<>>
    ELSE IF IsBadLine(ds[i])
         THEN <<[line |-> i, msg |-> BadLineMsg(ds[i])]>> \o ExpectedErrors(ds, i + 1)
         ELSE ExpectedErrors(ds, i + 1)

ErrorSummary(errs) ==
    [i \in 1..Len(errs) |-> [line |-> errs[i].line, msg |-> errs[i].msg]]

\* C2: parse errors are accumulated, not fatal.  At every point of a parse the
\* parse errors recorded so far are, in input order, exactly one error (of the
\* matching kind) for each delivered line that is a malformed header, an
\* empty-key assignment or an invalid line, and none for any other line; the
\* parse returns only at end-of-input, with every character of the file
\* consumed, and an error result is the whole list.
C2_ErrorsAccumulated ==
    opened = "ok" =>
        /\ ErrorSummary(ParseErrs(errors)) = ExpectedErrors(delivered, 1)
        /\ pc = "done" =>
              /\ rpos = Len(content)
              /\ result.tag = "Err" => result.errors = errors

\* a parse went on after a bad line and returned two or more parse errors,
\* with a good line between two bad ones
C2_Witness ==
    /\ pc = "done"
    /\ opened = "ok"
    /\ result.tag = "Err"
    /\ Len(ParseErrs(result.errors)) >= 2
    /\ \E i, j, k \in 1..Len(delivered) :
          /\ i < j /\ j < k
          /\ IsBadLine(delivered[i])
          /\ ~IsBadLine(delivered[j])
          /\ IsBadLine(delivered[k])

\* C3: every parse error carries the 1-based position of its line among all
\* the lines delivered so far (blank and comment lines counted: the counter is
\* the number of delivered lines) and that line's text, trimmed on both sides.
C3_LineNumberAndText ==
    opened = "ok" =>
        /\ cnt = Len(delivered)
        /\ \A i \in 1..Len(errors) :
              IsParseErr(errors[i]) =>
                 /\ errors[i].line \in 1..Len(delivered)
                 /\ IsBadLine(delivered[errors[i].line])
                 /\ errors[i].data = Trim(delivered[errors[i].line])

\* an error on a line that follows a blank line and a comment line, whose
\* text had whitespace to trim
C3_Witness ==
    /\ opened = "ok"
    /\ \E i \in 1..Len(errors) :
          /\ IsParseErr(errors[i])
          /\ errors[i].line >= 3
          /\ \E j, k \in 1..(errors[i].line - 1) :
                IsBlankLine(delivered[j]) /\ IsCommentLine(delivered[k])
          /\ Len(errors[i].data) + 1 < Len(delivered[errors[i].line])

\* C10: when the file cannot be opened, read_from_file returns at once a list
\* of exactly one error, an IO error; no line is read or classified.
C10_OpenFailure ==
    opened = "failed" =>
        /\ pc = "done"
        /\ result.tag = "Err"
        /\ Len(result.errors) = 1
        /\ IsIOErr(result.errors[1])
        /\ ParseErrs(result.errors) = <<>>
        /\ rpos = 0 /\ cnt = 0 /\ delivered = <<>> /\ fails = 0
        /\ errors = <<>> /\ map = EmptyMap

\* the open failed on a path with no file, and on a file that cannot be read
C10_Witness ==
    /\ opened = "failed"
    /\ ~disk.exists
    /\ result.errors[1].err = "NotFound"

----------------------------------------------------------------------------
(* Files of headers and assignments, read without read failures.           *)

GroupLineSet ==
    { <<"[", "g", "]">>,
      <<"[", " ", "h", " ", "]">>,
      <<"a", "=", "1">>,
      <<" ", "a", " ", "=", " ", "2", "=", "3", " ">>,
      <<"b", " ", "=">> }

\* every line of at most MaxLineLen characters over these characters
CharSet == {"a", "b", "=", " "}

\* tests/test.ini as tests::parse_variables reads it
TestIni ==
    Flatten(<< <<"[", "D", "E", "F", "A", "U", "L", "T", "]">>,
               <<"v", "a", "r", "1", " ", "=", " ", "v", "a", "l", "1">>,
               <<"[", "G", "r", "o", "u", "p", " ", "A", "]">>,
               <<"v", "a", "r", "2", " ", "=", " ",
                 "v", "a", "l", "u", "e", " ", "t", "w", "o">>,
               <<"v", "a", "r", " ", "3", " ", "=", " ",
                 "v", "a", "l", "u", "e", " ", "=", " ",
                 "t", "h", "r", "e", "e">> >>)

AssignInputs ==
    {Flatten(ls) : ls \in BoundedSeq(GroupLineSet, MaxGroupLines)}
    \cup {Flatten(<<l>>) : l \in BoundedSeq(CharSet, MaxLineLen)}
    \cup {TestIni}

InitAssign ==
    /\ disk \in {File(c) : c \in AssignInputs}
    /\ conf = EmptyMap
    /\ InitCommon

\* a parse whose reads all succeed
NextAssign == Open \/ ReadLine \/ ReadEof

SpecAssign == InitAssign /\ [][NextAssign]_vars

----------------------------------------------------------------------------
(* Claims about assignments, checked under SpecAssign.                     *)

SetMax(S) == CHOOSE x \in S : \A y \in S : y <= x
SetMin(S) == CHOOSE x \in S : \A y \in S : x <= y

\* the name a well-formed header line gives
HeaderName(l) == LET t == Trim(l) IN Trim(SubSeq(t, 2, Len(t) - 1))

\* the variable and the value an assignment line gives
AssignVar(l) == LET t == Trim(l) IN TrimEnd(SubSeq(t, 1, FirstEq(t) - 1))
AssignVal(l) == LET t == Trim(l) IN TrimStart(SubSeq(t, FirstEq(t) + 1, Len(t)))

IsGoodAssign(l) == IsAssignLine(l) /\ ~IsEmptyKeyAssign(l)

\* the group in force at line i of ds: that of the last header before it
GroupAt(ds, i) ==
    LET hs == {j \in 1..(i - 1) : IsHeaderLine(ds[j])}
    IN  IF hs = {} THEN DEFAULT ELSE HeaderName(ds[SetMax(hs)])

KeyAt(ds, i) == <<GroupAt(ds, i), AssignVar(ds[i])>>

\* the lines of ds that assign key k
AssignedAt(ds, k) ==
    {i \in 1..Len(ds) : IsGoodAssign(ds[i]) /\ KeyAt(ds, i) = k}

\* C4: last-write-wins within one file.  The Store of an error-free parse
\* holds exactly the keys some line assigns, each with the value of the last
\* line that assigns it, whatever headers lie between the assignments.
C4_LastWriteWins ==
    (pc = "done" /\ result.tag = "Ok") =>
        LET keys == {KeyAt(delivered, i) :
                        i \in {j \in 1..Len(delivered) : IsGoodAssign(delivered[j])}}
        IN  /\ DOMAIN result.values = keys
            /\ \A k \in keys :
                  result.values[k] =
                      AssignVal(delivered[SetMax(AssignedAt(delivered, k))])

\* a key is assigned twice with different values, the second time after its
\* group was left for another group and opened again
C4_Witness ==
    /\ pc = "done"
    /\ result.tag = "Ok"
    /\ \E i, h1, h2, j \in 1..Len(delivered) :
          /\ i < h1 /\ h1 < h2 /\ h2 < j
          /\ IsGoodAssign(delivered[i]) /\ IsGoodAssign(delivered[j])
          /\ KeyAt(delivered, i) = KeyAt(delivered, j)
          /\ AssignVal(delivered[i]) # AssignVal(delivered[j])
          /\ IsHeaderLine(delivered[h1])
          /\ HeaderName(delivered[h1]) # GroupAt(delivered, i)
          /\ IsHeaderLine(delivered[h2])
          /\ HeaderName(delivered[h2]) = GroupAt(delivered, i)
          /\ j = SetMax(AssignedAt(delivered, KeyAt(delivered, j)))

CountEq(t) == Cardinality({i \in 1..Len(t) : t[i] = "="})

LastDelivered == delivered[Len(delivered)]

\* C5: an assignment line is split at the first '=' only.  Right after such a
\* line is read, the map holds, under the current group and the text before
\* the first '=' (trailing whitespace removed), everything after the first '='
\* (leading whitespace removed): every further '=' is in the value, and an
\* empty value is stored as the empty string.
C5_SplitAtFirstEq ==
    (opened = "ok" /\ Len(delivered) > 0 /\ IsGoodAssign(LastDelivered)) =>
        LET t == Trim(LastDelivered)
            i == FirstEq(t)
            var == TrimEnd(SubSeq(t, 1, i - 1))
            val == TrimStart(SubSeq(t, i + 1, Len(t)))
        IN  /\ \A j \in 1..Len(var) : var[j] # "="
            /\ <<group, var>> \in DOMAIN map
            /\ map[<<group, var>>] = val
            /\ CountEq(map[<<group, var>>]) = CountEq(t) - 1
            /\ i = Len(t) => map[<<group, var>>] = <<>>

\* the line just read holds two '=' and its value keeps the second one, and
\* the map also holds an empty value
C5_Witness ==
    /\ opened = "ok"
    /\ Len(delivered) > 0
    /\ IsGoodAssign(LastDelivered)
    /\ CountEq(Trim(LastDelivered)) = 2
    /\ CountEq(map[<<group, AssignVar(LastDelivered)>>]) = 1
    /\ \E k \in DOMAIN map : map[k] = <<>>

----------------------------------------------------------------------------
(* The current group, checked under SpecGroup.                             *)

\* two headers, a malformed header, and a line of every other class; the
\* comment, the empty-key assignment and the invalid line hold a header
GroupTrackLines ==
    { <<"[", "g", "]">>,
      <<" ", "[", " ", "h", " ", "]">>,
      <<"[", "h">>,
      <<" ">>,
      <<";", "[", "h", "]">>,
      <<"a", "=", "1">>,
      <<"=", "[", "h", "]">>,
      <<"x", "[", "h", "]">> }

\* a file that leaves group g, meets a malformed header, and opens g again
RegroupIni ==
    Flatten(<< <<"a", "=", "1">>,
               <<"[", "g", "]">>,
               <<"a", "=", "2">>,
               <<"[", "h">>,
               <<"b", "=", "3">>,
               <<"[", " ", "h", " ", "]">>,
               <<"a", "=", "4">>,
               <<"[", "g", "]">>,
               <<"c", "=", "5">> >>)

GroupInputs ==
    {Flatten(ls) : ls \in BoundedSeq(GroupTrackLines, MaxLines)} \cup {RegroupIni}

InitGroup ==
    /\ disk \in {File(c) : c \in GroupInputs}
    /\ conf = EmptyMap
    /\ InitCommon

SpecGroup == InitGroup /\ [][NextAssign]_vars

\* C15: current-group tracking.  At every point of a parse the current group
\* is "DEFAULT" if no well-formed header has been read, and otherwise the
\* trimmed name of the last well-formed header read: no other line, a
\* malformed header included, changes it.  The map holds exactly the keys
\* <<group current at the line, variable>> of the assignment lines read so
\* far, so opening a group again adds to it and removes nothing.
C15_CurrentGroup ==
    opened = "ok" =>
        /\ group = GroupAt(delivered, Len(delivered) + 1)
        /\ (\A i \in 1..Len(delivered) : ~IsHeaderLine(delivered[i]))
              => group = DefaultName
        /\ DOMAIN map =
              {KeyAt(delivered, i) :
                  i \in {j \in 1..Len(delivered) : IsGoodAssign(delivered[j])}}

\* group g was left and opened again, and holds the variables assigned in it
\* before the malformed header, after it, and after it was opened again
C15_Witness ==
    /\ pc = "done"
    /\ \E h1, i, m, j, h2, h3, k \in 1..Len(delivered) :
          /\ h1 < i /\ i < m /\ m < j /\ j < h2 /\ h2 < h3 /\ h3 < k
          /\ IsHeaderLine(delivered[h1]) /\ IsHeaderLine(delivered[h2])
          /\ IsHeaderLine(delivered[h3])
          /\ HeaderName(delivered[h2]) # HeaderName(delivered[h1])
          /\ HeaderName(delivered[h3]) = HeaderName(delivered[h1])
          /\ IsMalformedHeader(delivered[m])
          /\ IsGoodAssign(delivered[i]) /\ IsGoodAssign(delivered[j])
          /\ IsGoodAssign(delivered[k])
          /\ {<<HeaderName(delivered[h1]), AssignVar(delivered[x])>> : x \in {i, j, k}}
                \subseteq DOMAIN map
          /\ Cardinality({AssignVar(delivered[x]) : x \in {i, j, k}}) = 3

----------------------------------------------------------------------------
(* The classification of a line, checked under SpecClassify.               *)

\* the characters the classification looks at, a letter and '#'
ClassChars == {";", "[", "]", "=", " ", "a", "#"}

\* every one-line file of at most MaxLineLen such characters, and the longer
\* files above
ClassInputs ==
    {Flatten(<<l>>) : l \in BoundedSeq(ClassChars, MaxLineLen)}
    \cup {InvalidIni, TestIni, RegroupIni}

InitClassify ==
    /\ disk \in {File(c) : c \in ClassInputs}
    /\ conf = EmptyMap
    /\ InitCommon

SpecClassify == InitClassify /\ [][NextAssign]_vars

\* the step changes neither the error list, nor the map, nor the group
OutcomeNothing == errors' = errors /\ map' = map /\ group' = group

\* the step makes name the current group, and nothing else
OutcomeHeader(name) == errors' = errors /\ map' = map /\ group' = name

\* the step records one parse error for the line t, and nothing else
OutcomeError(msg, t) ==
    /\ errors' = Append(errors, [kind |-> "Parse", file |-> Path, msg |-> msg,
                                 data |-> t, line |-> Len(delivered')])
    /\ map' = map
    /\ group' = group

\* the step stores val under the current group and var, and nothing else
OutcomeAssign(var, val) ==
    /\ errors' = errors
    /\ group' = group
    /\ DOMAIN map' = DOMAIN map \cup {<<group, var>>}
    /\ map'[<<group, var>>] = val
    /\ \A k \in DOMAIN map \ {<<group, var>>} : map'[k] = map[k]

\* the outcome the ordered rules give the trimmed line t
Outcome(t) ==
    IF Len(t) = 0 THEN OutcomeNothing
    ELSE IF t[1] = ";" THEN OutcomeNothing
    ELSE IF t[1] = "[" THEN
        IF t[Len(t)] = "]" THEN OutcomeHeader(Trim(SubSeq(t, 2, Len(t) - 1)))
        ELSE OutcomeError(MsgBracket, t)
    ELSE IF HasEq(t) THEN
        IF Trim(SubSeq(t, 1, FirstEq(t) - 1)) = <<>>
        THEN OutcomeError(MsgVariable, t)
        ELSE OutcomeAssign(TrimEnd(SubSeq(t, 1, FirstEq(t) - 1)),
                           TrimStart(SubSeq(t, FirstEq(t) + 1, Len(t))))
    ELSE OutcomeError(MsgAssignment, t)

\* C16: line classification is total and ordered.  Every line read gets the
\* outcome of the first rule that matches its trimmed text, and only that
\* outcome: empty, nothing; starting with ';', nothing, even with '='; starting
\* with '[', a new current group if it ends with ']' and a missing-bracket
\* error if not, even with '='; holding '=', a stored assignment, or a
\* missing-variable-name error (nothing stored) when nothing but whitespace
\* precedes the first '='; anything else, an invalid-line error.
C16_Classification ==
    [][delivered' # delivered =>
          /\ Len(delivered') = Len(delivered) + 1
          /\ Outcome(Trim(delivered'[Len(delivered')]))]_vars

\* a one-line file whose line starts with '[', holds '=' and does not end
\* with ']' was read: one missing-bracket error, nothing stored
C16_Witness ==
    /\ pc = "done"
    /\ Len(delivered) = 1
    /\ LET t == Trim(delivered[1])
       IN  Len(t) > 1 /\ t[1] = "[" /\ HasEq(t) /\ t[Len(t)] # "]"
    /\ Len(errors) = 1 /\ errors[1].msg = MsgBracket
    /\ map = EmptyMap
    /\ group = DefaultName

----------------------------------------------------------------------------
(* Claims about the Config, checked under SpecStore.                       *)

InitStore ==
    /\ disk = NoFile
    /\ conf = EmptyMap
    /\ InitCommon

SpecStore == InitStore /\ [][NextStore]_vars

\* C6: merge_with(self, other) returns a Store whose keys are those of self
\* and those of other; it holds other's value for every key of other and
\* self's value, unchanged, for every key of self alone.
C6_MergeWith ==
    [][(Len(hist') = Len(hist) + 1 /\ hist'[Len(hist')].op = "merge") =>
          LET other == hist'[Len(hist')].other
          IN  /\ DOMAIN conf' = DOMAIN conf \cup DOMAIN other
              /\ \A k \in DOMAIN other : conf'[k] = other[k]
              /\ \A k \in DOMAIN conf \ DOMAIN other : conf'[k] = conf[k]]_vars

\* a merge has just replaced a value of self, added a key of other and kept a
\* key of self alone
C6_Witness ==
    /\ Len(hist) = 3
    /\ hist[1].op = "set" /\ hist[2].op = "set" /\ hist[3].op = "merge"
    /\ hist[1].key # hist[2].key
    /\ hist[1].key \in DOMAIN hist[3].other
    /\ hist[3].other[hist[1].key] # hist[1].val
    /\ hist[2].key \notin DOMAIN hist[3].other
    /\ Cardinality(DOMAIN hist[3].other) = 2
    /\ Cardinality(DOMAIN conf) = 3

AllKeys == StoreGroups \X StoreVars

\* the value the most recent assignment in h gave key k, None if there is none
RECURSIVE LastAssigned(_, _)
LastAssigned(h, k) ==
    IF Len(h) = 0 THEN None
    ELSE LET e == h[Len(h)]
         IN  IF e.op = "set" /\ e.key = k THEN Some(e.val)
             ELSE IF e.op = "merge" /\ k \in DOMAIN e.other THEN Some(e.other[k])
             ELSE LastAssigned(SubSeq(h, 1, Len(h) - 1), k)

\* C7: after any sequence of set, set_default and merge_with calls from an
\* empty Store, get returns for every key the value of the most recent
\* assignment to exactly that key, and None exactly when the key was never
\* assigned; so no call removes a key or changes a key it does not assign.
C7_LastAssignment ==
    \A k \in AllKeys : Get(conf, k[1], k[2]) = LastAssigned(hist, k)

\* a key set once and then replaced by a merge, beside a key set once and
\* never touched again and a key never assigned
C7_Witness ==
    /\ Len(hist) = 3
    /\ hist[1].op = "set" /\ hist[2].op = "set" /\ hist[3].op = "merge"
    /\ hist[1].key # hist[2].key
    /\ hist[2].key \in DOMAIN hist[3].other
    /\ hist[3].other[hist[2].key] # hist[2].val
    /\ hist[1].key \notin DOMAIN hist[3].other
    /\ Get(conf, hist[1].key[1], hist[1].key[2]) = Some(hist[1].val)
    /\ \E k \in AllKeys : Get(conf, k[1], k[2]) = None

\* the group names that occur in a key of m
GroupNames(m) == {k[1] : k \in DOMAIN m}

\* C8: groups() yields each distinct group name of the Store exactly once.
C8_GroupsDistinct ==
    /\ \A i \in 1..Len(out.yielded) : out.yielded[i] \in GroupNames(out.store)
    /\ \A g \in GroupNames(out.store) :
          Cardinality({i \in 1..Len(out.yielded) : out.yielded[i] = g}) = 1

----------------------------------------------------------------------------
(* Writing a Config and reading it back, with no I/O failure.              *)

RTGroups == {DEFAULT, <<>>, <<"g", " ", "]">>, <<" ", "h">>}
RTVars == {<<"a">>, <<"b", " ", "c">>, <<";", "a">>}
RTVals == {<<>>, <<"=", "v", " ", "w">>, <<" ", "z">>}

\* the Configs of at most MaxKeys keys over these strings; set and
\* set_default build each of them
RTConfigs ==
    UNION {[D -> RTVals] :
              D \in {K \in SUBSET (RTGroups \X RTVars) : Cardinality(K) <= MaxKeys}}

InitRoundTrip ==
    /\ disk = NoFile
    /\ conf \in RTConfigs
    /\ InitCommon

NextRoundTrip == WriteToFile \/ Open \/ ReadLine \/ ReadEof

SpecRoundTrip == InitRoundTrip /\ [][NextRoundTrip]_vars

\* a single-line string without leading or trailing whitespace
IsCleanString(x) ==
    /\ \A i \in 1..Len(x) : x[i] # "\n"
    /\ Len(x) > 0 => (x[1] \notin WhiteSpace /\ x[Len(x)] \notin WhiteSpace)

RoundTripPre(m) ==
    \A k \in DOMAIN m :
        /\ IsCleanString(k[1]) /\ IsCleanString(k[2]) /\ IsCleanString(m[k])
        /\ Len(k[2]) > 0
        /\ \A i \in 1..Len(k[2]) : k[2][i] # "="
        /\ k[2][1] \notin {";", "["}

\* C9: write/read round trip.  For a Store whose group names, variable names
\* and values are single-line strings without leading or trailing whitespace
\* and whose variable names are non-empty, hold no '=' and start with neither
\* ';' nor '[', reading the file that write_to_file wrote returns, with no
\* error, a Store with the same keys and the same value for every key.
C9_RoundTrip ==
    (pc = "done" /\ wres = "ok" /\ RoundTripPre(conf)) =>
        result = [tag |-> "Ok", values |-> conf]

\* a Store with two variables in one group, an empty value and a value that
\* holds '=', was written and read back
C9_Witness ==
    /\ pc = "done"
    /\ wres = "ok"
    /\ RoundTripPre(conf)
    /\ \E k1, k2 \in DOMAIN conf :
          /\ k1 # k2 /\ k1[1] = k2[1]
          /\ conf[k1] = <<>>
          /\ CountEq(conf[k2]) = 1
    /\ result.tag = "Ok"

----------------------------------------------------------------------------
(* The path in an I/O error, checked under SpecParse.                      *)

\* the errors read_from_file holds or has returned
ReportedErrors ==
    IF pc = "done" /\ result.tag = "Err" THEN result.errors
    ELSE IF opened = "ok" THEN errors
    ELSE <<>>

\* C11: every I/O error read_from_file reports, for a failed open or for a
\* failed read, carries the path that was passed to read_from_file.
C11_IOErrorHasPath ==
    \A i \in 1..Len(ReportedErrors) :
        IsIOErr(ReportedErrors[i]) => ReportedErrors[i].file = Path

----------------------------------------------------------------------------
(* Read failures in the middle of a parse, checked under SpecParse.        *)

IsOneLine(s) == \A j \in 1..(Len(s) - 1) : s[j] # "\n"

\* every parse error quotes the trimmed text of the one delivered line it
\* numbers, and each delivered line is one line of the file
ClassifiedAreDelivered ==
    /\ \A i \in 1..Len(delivered) : Len(delivered[i]) > 0 /\ IsOneLine(delivered[i])
    /\ \A i \in 1..Len(errors) :
          IsParseErr(errors[i]) =>
              errors[i].data = Trim(delivered[errors[i].line])

\* C19 as stated: the line buffer is empty at the start of every read
\* attempt, on every path through the loop, a failed read included, so each
\* classified line is the trimmed text of exactly one delivered line.
C19_BufferEmpty ==
    opened = "ok" =>
        /\ pc = "loop" => line = <<>>
        /\ ClassifiedAreDelivered

\* C19: at the start of every read attempt the line buffer holds exactly the
\* characters that failed reads have taken of the current line, the line
\* not yet delivered: it is empty after every successful read (whatever the
\* class of the line) and after a read that failed on invalid data, and it
\* never holds text of a line already delivered.  So each classified line is
\* the trimmed text of exactly one line of the file.
C19_BufferCurrentLine ==
    opened = "ok" =>
        /\ pc = "loop" =>
              /\ line = SubSeq(content, lstart + 1, rpos)
              /\ \A j \in (lstart + 1)..rpos : content[j] # "\n"
              /\ lstart \in {0, Len(content)} \/ content[lstart] = "\n"
        /\ (pc = "loop" /\ rpos = lstart) => line = <<>>
        /\ ClassifiedAreDelivered

\* a read attempt starts with text in the buffer: a line was classified, then
\* a read failed after it had taken characters of the next line
C19_Witness ==
    /\ pc = "loop"
    /\ fails = 1
    /\ Len(delivered) >= 1
    /\ Len(line) > 0
    /\ Len(NextChunk(content, rpos)) > 1

----------------------------------------------------------------------------
(* Termination of read_from_file, checked under SpecParseFair.             *)

\* one-line files of every class, three longer files, a path with no file and
\* a directory
FairInputs ==
    {Flatten(<<l>>) : l \in LineSet} \cup {InvalidIni, TestIni, RegroupIni}

InitParseFair ==
    /\ disk \in {File(c) : c \in FairInputs} \cup {NoFile, Dir}
    /\ conf = EmptyMap
    /\ InitCommon

\* read_from_file runs on: whenever a step of it is possible, a step is
\* taken.  Which reads fail is not the program's choice.  After MaxFail failed
\* reads the model records no further failure, so a parse whose every read
\* fails stays in its loop with nothing more recorded.
SpecParseFair == InitParseFair /\ [][NextParse]_vars /\ WF_vars(NextParse)

\* C17: read_from_file terminates on every input of finitely many lines,
\* whether or not reads fail: every parse reaches end-of-input and returns.
C17_Terminates == <>(pc = "done")

----------------------------------------------------------------------------
(* The global Config (feature config_global).                              *)

\* a cell that takes every value it is given
OnceCellSetAgain(c, v) == [cell |-> Some(v), ret |-> [tag |-> "Ok"]]

\* OnceCell::set(value): stores the value and returns Ok(()) if the cell was
\* empty, returns Err(value) and leaves the cell alone if it was full
OnceCellSet(c, v) ==
    IF c = None THEN [cell |-> Some(v), ret |-> [tag |-> "Ok"]]
    ELSE [cell |-> c, ret |-> [tag |-> "Err", val |-> v]]

\* OnceCell::get(): None if the cell is empty, Some(&value) if it is full
OnceCellGet(c) == c

\* Option::expect(msg): the value, or a panic with msg
Expect(o, msg) ==
    IF o = None THEN [tag |-> "Panic", msg |-> msg]
    ELSE [tag |-> "Ref", val |-> o.val]

MsgNotInitialized == "Global Config is not initialized"

\* the Configs the model's callers register
GlobalConfigs == ConfigsOver({<<DEFAULT, <<"a">>>>}, StoreVals)

\* set_global(conf): CONFIG.set(conf)?; Ok(())
SetGlobal(c) ==
    /\ Len(glog) < MaxCalls
    /\ LET r == OnceCellSet(cell, c)
       IN  /\ cell' = r.cell
           /\ glog' = Append(glog, [fn |-> "set_global", arg |-> c,
                                    ret |-> r.ret])
    /\ UNCHANGED <<uniqVars, lookupVars, disk, storeVars, parseVars>>

\* Config::global(): CONFIG.get().expect("Global Config is not initialized")
CallGlobal ==
    /\ Len(glog) < MaxCalls
    /\ glog' = Append(glog, [fn |-> "global",
                             ret |-> Expect(OnceCellGet(cell), MsgNotInitialized)])
    /\ UNCHANGED <<uniqVars, lookupVars, disk, storeVars, parseVars, cell>>

NextGlobal == (\E c \in GlobalConfigs : SetGlobal(c)) \/ CallGlobal

InitGlobal == InitStore

\* callers, in any order, register a global Config and ask for it
SpecGlobal == InitGlobal /\ [][NextGlobal]_vars

\* the positions of the set_global calls among the first n calls
SetCalls(n) == {i \in 1..n : glog[i].fn = "set_global"}

\* C12: the global registry is set once.  In every sequence of calls, the
\* first set_global succeeds and its Config stays the global Config for ever;
\* every later set_global fails, returns the Config it was given and changes
\* nothing; global() returns the registered Config, and panics when no
\* set_global has been made before it.
C12_GlobalSetOnce ==
    /\ cell = IF SetCalls(Len(glog)) = {} THEN None
              ELSE Some(glog[SetMin(SetCalls(Len(glog)))].arg)
    /\ \A i \in 1..Len(glog) :
          IF glog[i].fn = "set_global"
          THEN glog[i].ret = IF SetCalls(i - 1) = {} THEN [tag |-> "Ok"]
                             ELSE [tag |-> "Err", val |-> glog[i].arg]
          ELSE glog[i].ret =
                  IF SetCalls(i - 1) = {}
                  THEN [tag |-> "Panic", msg |-> MsgNotInitialized]
                  ELSE [tag |-> "Ref", val |-> glog[SetMin(SetCalls(i - 1))].arg]

\* global() panicked, a Config was registered, a different Config was then
\* rejected, and global() returned the first one
C12_Witness ==
    /\ Len(glog) = 4
    /\ glog[1].fn = "global" /\ glog[1].ret.tag = "Panic"
    /\ glog[2].fn = "set_global" /\ glog[2].ret.tag = "Ok"
    /\ glog[3].fn = "set_global" /\ glog[3].ret.tag = "Err"
    /\ glog[3].arg # glog[2].arg
    /\ glog[4].fn = "global" /\ glog[4].ret = [tag |-> "Ref", val |-> glog[2].arg]
    /\ cell = Some(glog[2].arg)

----------------------------------------------------------------------------
(* Lookups: get, get_default and the two index forms.                      *)

\* Config::get(group, variable) is called
CallGet(g, v) ==
    /\ pc = "idle"
    /\ ret' = [fn |-> "get", group |-> g, var |-> v, ret |-> Get(conf, g, v)]
    /\ UNCHANGED <<uniqVars, globalVars, disk, storeVars, parseVars>>

\* Config::get_default(variable) is called
CallGetDefault(v) ==
    /\ pc = "idle"
    /\ ret' = [fn |-> "get_default", var |-> v, ret |-> GetDefault(conf, v)]
    /\ UNCHANGED <<uniqVars, globalVars, disk, storeVars, parseVars>>

\* conf[(group, variable)] is evaluated
CallIndex(g, v) ==
    /\ pc = "idle"
    /\ ret' = [fn |-> "index", group |-> g, var |-> v, ret |-> Index(conf, g, v)]
    /\ UNCHANGED <<uniqVars, globalVars, disk, storeVars, parseVars>>

\* conf[variable] is evaluated
CallIndexDefault(v) ==
    /\ pc = "idle"
    /\ ret' = [fn |-> "index_default", var |-> v, ret |-> IndexDefault(conf, v)]
    /\ UNCHANGED <<uniqVars, globalVars, disk, storeVars, parseVars>>

NextLookup ==
    \/ \E g \in StoreGroups, v \in StoreVars, x \in StoreVals : Set(g, v, x)
    \/ \E v \in StoreVars, x \in StoreVals : SetDefault(v, x)
    \/ \E g \in StoreGroups, v \in StoreVars : CallGet(g, v)
    \/ \E v \in StoreVars : CallGetDefault(v)
    \/ \E g \in StoreGroups, v \in StoreVars : CallIndex(g, v)
    \/ \E v \in StoreVars : CallIndexDefault(v)

InitLookup == InitStore

\* a caller builds a Config with set and set_default and looks variables up
SpecLookup == InitLookup /\ [][NextLookup]_vars

\* C13: the default-group accessors are the group accessors on the group
\* named "DEFAULT".  For every Store and variable, get_default(v) returns what
\* get("DEFAULT", v) returns, store[v] gives what store[("DEFAULT", v)] gives
\* (the value, or a panic), and set_default(v, x) builds the Store that
\* set("DEFAULT", v, x) builds; what a call of get_default or store[v]
\* returned is what the group accessor returns on the same Store.
C13_DefaultAccessors ==
    /\ \A v \in StoreVars :
          /\ GetDefault(conf, v) = Get(conf, DefaultName, v)
          /\ IndexDefault(conf, v) = Index(conf, DefaultName, v)
          /\ \A x \in StoreVals :
                ConfigSetDefault(conf, v, x) = ConfigSet(conf, DefaultName, v, x)
    /\ ret.fn = "get_default" => ret.ret = Get(conf, DefaultName, ret.var)
    /\ ret.fn = "index_default" => ret.ret = Index(conf, DefaultName, ret.var)

\* get_default found a variable that group "g" holds with another value
C13_Witness ==
    /\ ret.fn = "get_default"
    /\ ret.ret # None
    /\ <<<<"g">>, ret.var>> \in DOMAIN conf
    /\ Some(conf[<<<<"g">>, ret.var>>]) # ret.ret
    /\ \E v \in StoreVars : GetDefault(conf, v) = None

\* C14: get reports absence, indexing does not.  For every Store, group and
\* variable: when the key is absent get returns None (it does not fail) and
\* store[(g, v)] panics; when the key is present get returns Some(value) and
\* store[(g, v)] gives that same value.  The same holds of the default forms.
C14_AbsentKey ==
    /\ \A g \in StoreGroups, v \in StoreVars :
          IF <<g, v>> \in DOMAIN conf
          THEN /\ Get(conf, g, v) = Some(conf[<<g, v>>])
               /\ Index(conf, g, v) = [tag |-> "Ref", val |-> Get(conf, g, v).val]
          ELSE /\ Get(conf, g, v) = None
               /\ Index(conf, g, v).tag = "Panic"
    /\ ret.fn \in {"get", "get_default"} =>
          /\ ret.ret \in {None} \cup {Some(x) : x \in StoreVals}
          /\ ret.ret = None <=>
                <<(IF ret.fn = "get" THEN ret.group ELSE DefaultName), ret.var>>
                    \notin DOMAIN conf
    /\ ret.fn \in {"index", "index_default"} =>
          LET k == <<(IF ret.fn = "index" THEN ret.group ELSE DefaultName), ret.var>>
          IN  IF k \in DOMAIN conf
              THEN ret.ret = [tag |-> "Ref", val |-> conf[k]]
              ELSE ret.ret.tag = "Panic"

\* an index panicked on a key absent from a Store that holds other keys, and
\* get returns None for that key
C14_Witness ==
    /\ ret.fn = "index"
    /\ ret.ret.tag = "Panic"
    /\ DOMAIN conf # {}
    /\ Get(conf, ret.group, ret.var) = None
    /\ \E k \in DOMAIN conf : Index(conf, k[1], k[2]).tag = "Ref"

----------------------------------------------------------------------------
(* The uniq adapter on its own.                                            *)

\* the elements of the sources: any Copy + Ord type will do
UniqElems == {1, 2, 3}

\* source.uniq() on a source of at most MaxSrcLen elements
InitUniq ==
    /\ disk = NoFile
    /\ conf = EmptyMap
    /\ InitIdle
    /\ usrc \in BoundedSeq(UniqElems, MaxSrcLen)
    /\ uit = UniqIter(usrc)
    /\ uout = <<>>
    /\ ulast = <<>>

\* next() is called on the UniqIterator
CallNext ==
    /\ \E n \in {UniqNext(uit)} :
          /\ uit' = n.it
          /\ ulast' = <<n.item>>
          /\ uout' = IF n.item = None THEN uout ELSE Append(uout, n.item.val)
    /\ UNCHANGED <<globalVars, lookupVars, disk, storeVars, parseVars, usrc>>

NextUniq == CallNext

SpecUniq == InitUniq /\ [][NextUniq]_vars

\* the elements of a sequence
Elems(s) == {s[i] : i \in 1..Len(s)}

\* the position of the first occurrence of x in s
FirstIdx(s, x) == SetMin({i \in 1..Len(s) : s[i] = x})

\* the part of the source that the iterator has taken
Taken == SubSeq(usrc, 1, Len(usrc) - Len(uit.source))

\* C20: uniq filters out duplicates.  At every point the yielded sequence
\* holds each distinct element of the part of the source taken so far exactly
\* once, in the order of the elements' first occurrences in the source, and
\* nothing else; next() returns None only when the whole source has been
\* taken, the yielded sequence then holds each distinct element of the source
\* exactly once, and every later next() returns None again.
C20_Uniq ==
    /\ Elems(uout) = Elems(Taken)
    /\ \A i, j \in 1..Len(uout) : i # j => uout[i] # uout[j]
    /\ \A i, j \in 1..Len(uout) :
          i < j => FirstIdx(usrc, uout[i]) < FirstIdx(usrc, uout[j])
    /\ ulast = <<None>> =>
          /\ Taken = usrc
          /\ Elems(uout) = Elems(usrc)
          /\ Cardinality(Elems(usrc)) = Len(uout)
          /\ UniqNext(uit).item = None
    /\ (ulast # <<>> /\ ulast # <<None>>) => ulast[1] = Some(uout[Len(uout)])

\* a source with duplicates that are not adjacent was run to its end: fewer
\* elements were yielded than it holds, and not in ascending order
C20_Witness ==
    /\ ulast = <<None>>
    /\ Len(usrc) = 4
    /\ Len(uout) = 2
    /\ usrc[1] = usrc[3]
    /\ usrc[2] = usrc[4]
    /\ uout[1] > uout[2]

----------------------------------------------------------------------------
(* The lookups inside write_to_file and group_by_key_value.                *)

\* HashMap::get_key_value(&(group, v))
GetKeyValue(m, g, v) ==
    IF <<g, v>> \in DOMAIN m THEN Some(<<<<g, v>>, m[<<g, v>>]>>) ELSE None

\* the two maps of group_by_key_value over the variables vs: each item is
\* get_key_value(..).unwrap() turned into (k.1, v); the unwrap of None panics
RECURSIVE KeyValues(_, _, _)
KeyValues(m, g, vs) ==
    IF Len(vs) = 0 THEN [tag |-> "Ok", items |-> <<>>]
    ELSE IF GetKeyValue(m, g, Head(vs)) = None THEN [tag |-> "Panic"]
    ELSE LET kv == GetKeyValue(m, g, Head(vs)).val
             rest == KeyValues(m, g, Tail(vs))
         IN  IF rest.tag = "Panic" THEN [tag |-> "Panic"]
             ELSE [tag |-> "Ok",
                   items |-> << <<kv[1][2], kv[2]>> >> \o rest.items]

\* Config::group_by_key_value, collected, with keys() yielding in order ord
GroupByKeyValue(m, g, ord) == KeyValues(m, g, VariablesInGroup(g, ord))

\* the groups a caller asks for: those of the Stores, and one no Store holds
EnumGroups == StoreGroups \cup {<<"h">>}

\* group_by_key_value(group) is called and run to its end
CallGroupByKeyValue(g) ==
    /\ pc = "idle"
    /\ \E ord \in KeysOrders(conf) :
          ret' = [fn |-> "group_by_key_value", group |-> g,
                  ret |-> GroupByKeyValue(conf, g, ord)]
    /\ UNCHANGED <<uniqVars, globalVars, disk, storeVars, parseVars>>

NextEnum == WriteToFile \/ (\E g \in EnumGroups : CallGroupByKeyValue(g))

\* any Store over the model's groups, variables and values
InitEnum ==
    /\ disk = NoFile
    /\ conf \in ConfigsOver(StoreGroups \X StoreVars, StoreVals)
    /\ InitCommon

\* a Store is written and its groups are enumerated; it is not modified
SpecEnum == InitEnum /\ [][NextEnum]_vars

\* the keys of group g in m
KeysOfGroup(m, g) == {k \in DOMAIN m : k[1] = g}

\* C21: the must-exist lookups of the Store's own enumeration code never
\* fail.  For every Store and every order in which its map yields its keys,
\* each store[(group, var)] of write_to_file, with group from groups() and var
\* from variables_in_group(group), is on a key that is present, so no write
\* panics; each unwrap of group_by_key_value is on a present key, so it yields
\* exactly the (variable, value) pairs of the group, and the empty sequence
\* for a group with no keys.
C21_LookupsNeverFail ==
    /\ wres # "panic"
    /\ \A ord \in KeysOrders(conf) :
          /\ ~WriteText(conf, ord).panic
          /\ \A i \in 1..Len(Groups(conf, ord)) :
                LET g == Groups(conf, ord)[i]
                    vs == VariablesInGroup(g, ord)
                IN  \A j \in 1..Len(vs) :
                       /\ <<g, vs[j]>> \in DOMAIN conf
                       /\ Index(conf, g, vs[j]) =
                             [tag |-> "Ref", val |-> conf[<<g, vs[j]>>]]
          /\ \A g \in EnumGroups : GroupByKeyValue(conf, g, ord).tag = "Ok"
    /\ ret.fn = "group_by_key_value" =>
          /\ ret.ret.tag = "Ok"
          /\ Len(ret.ret.items) = Cardinality(KeysOfGroup(conf, ret.group))
          /\ {ret.ret.items[i] : i \in 1..Len(ret.ret.items)} =
                {<<k[2], conf[k]>> : k \in KeysOfGroup(conf, ret.group)}
          /\ KeysOfGroup(conf, ret.group) = {} => ret.ret.items = <<>>

\* a Store with two variables in each of two groups was written, and
\* group_by_key_value yielded both pairs of one of its groups
C21_Witness ==
    /\ wres = "ok"
    /\ Cardinality(DOMAIN conf) = 4
    /\ ret.fn = "group_by_key_value"
    /\ ret.ret.tag = "Ok"
    /\ Len(ret.ret.items) = 2
    /\ ret.ret.items[1][2] # ret.ret.items[2][2]

----------------------------------------------------------------------------
(* The whole model: a caller builds a Config, may write it, may read a     *)
(* file, may register a global Config, may run a uniq iterator.            *)

Init == InitStore

Next ==
    NextStore \/ WriteToFile \/ WriteFail \/ NextParse \/ NextGlobal \/ NextLookup
    \/ NextUniq \/ NextEnum

Spec == Init /\ [][Next]_vars

====
